---- MODULE Spec2Model ----
(***************************************************************************)
(* A model of nes77/bf: the IR (bf.rs Statement), the two optimizer passes *)
(* (constant_fold, peephole_optimization), the parser (parser.rs), the     *)
(* growable interpreter (bf.rs Context), the fixed-tape interpreters       *)
(* (bf/panicking.rs StaticContext8/16/32/64) and the function lowered by   *)
(* jit.rs CodeGen::lower_bf / compile_stmt.                                *)
(*                                                                         *)
(* Two specifications share the variables:                                 *)
(*   SpecOpt  the optimizer passes applied to IR sequences                 *)
(*   Spec     the pipeline text -> IR -> (optimize) -> execute, and single *)
(*            statements executed on a machine state built by hand         *)
(***************************************************************************)
EXTENDS Integers, Sequences, FiniteSets, TLC

VARIABLES
    src,      \* the source text, a sequence of one-character strings
    ir,       \* the IR sequence (Vec<Statement>) the pipeline holds
    stage,    \* where the pipeline is
    pass,     \* the optimizer pass applied last ("none" before any)
    npass,    \* how many passes have been applied
    input,    \* the bytes stdin will deliver
    cfg,      \* how the machines are built: the engines to run, the tape
              \* and the pointer a run starts from
    m,        \* the machine that is executing
    runs      \* the finished runs: run name -> final machine

vars == <<src, ir, stage, pass, npass, input, cfg, m, runs>>

----------------------------------------------------------------------------
(* Bounds of the model.                                                     *)

\* the largest count carried by a hand-built counted node (SpecOpt)
MaxCount == 2
\* the longest top-level IR sequence drawn in SpecOpt
MaxIRLen == 2
\* the number of optimizer passes applied in a row in SpecOpt
MaxPasses == 3
\* Spec runs every text over the eight source characters up to this length
MaxChars == 2
\* the growable tape is not extended beyond this many cells
MaxTape == 6
\* a run writes at most this many bytes to stdout
MaxOut == 3
\* the length of the runs of + and of - that wrap an 8-bit cell
WrapRun == 257
\* the largest offset of a hand-built AddOffset and count of a hand-built Prev
MaxOffset == 2
\* the largest pointer a hand-built machine state starts from
MaxPos == 1

----------------------------------------------------------------------------
(* bf.rs: enum Statement.  A node is a record tagged by op.                *)

SNext(n) == [op |-> "Next", n |-> n]
SPrev(n) == [op |-> "Prev", n |-> n]
SInc(n) == [op |-> "Inc", n |-> n]
SDec(n) == [op |-> "Dec", n |-> n]
SOut == [op |-> "Out"]
SIn == [op |-> "In"]
SLoop(l) == [op |-> "Loop", body |-> l]
SClear == [op |-> "Clear"]
SAddOffset(mul, offset) == [op |-> "AddOffset", mul |-> mul, offset |-> offset]
SSearchZero(stride) == [op |-> "SearchZero", stride |-> stride]

is_next(s) == s.op = "Next"
is_prev(s) == s.op = "Prev"
is_inc(s) == s.op = "Inc"
is_dec(s) == s.op = "Dec"

----------------------------------------------------------------------------
(* bf.rs: constant_fold.                                                   *)

\* stmts[idx..].iter().take_while(|s| s.op = op).count(), idx is 1-based
take_while_count(stmts, idx, op) ==
    LET stop == {j \in idx..Len(stmts) : stmts[j].op # op}
    IN  IF stop = {}
        THEN Len(stmts) + 1 - idx
        ELSE (CHOOSE j \in stop : \A k \in stop : j <= k) - idx

\* One pass of the scan loop `while idx < stmts.len()` at a node that is not
\* a Loop: the nodes pushed to out and the new cursor.  When no branch of the
\* loop body applies the cursor does not move.
fold_step(stmts, idx) ==
    LET s == stmts[idx]
        next_cnt == take_while_count(stmts, idx, "Next")
        prev_cnt == take_while_count(stmts, idx, "Prev")
        dec_cnt == take_while_count(stmts, idx, "Dec")
        inc_cnt == take_while_count(stmts, idx, "Inc")
    IN  IF s.op \in {"In", "Out", "Clear"}
        THEN [out |-> <<s>>, idx |-> idx + 1]
        ELSE IF next_cnt # 0
        THEN [out |-> <<SNext(next_cnt)>>, idx |-> idx + next_cnt]
        ELSE IF prev_cnt # 0
        THEN [out |-> <<SPrev(prev_cnt)>>, idx |-> idx + prev_cnt]
        ELSE IF dec_cnt # 0
        THEN [out |-> <<SDec(dec_cnt)>>, idx |-> idx + dec_cnt]
        ELSE IF inc_cnt # 0
        THEN [out |-> <<SInc(inc_cnt)>>, idx |-> idx + inc_cnt]
        ELSE [out |-> <<>>, idx |-> idx]

\* The scan loop never leaves a node none of its branches handles: the call
\* does not return.
RECURSIVE fold_hangs(_)
fold_hangs(stmts) ==
    \E i \in 1..Len(stmts) :
        \/ stmts[i].op \in {"AddOffset", "SearchZero"}
        \/ stmts[i].op = "Loop" /\ fold_hangs(stmts[i].body)

RECURSIVE constant_fold(_)
RECURSIVE fold_from(_, _, _)
fold_from(stmts, idx, out) ==
    IF idx > Len(stmts)
    THEN out
    ELSE IF stmts[idx].op = "Loop"
    THEN fold_from(stmts, idx + 1,
                   Append(out, SLoop(constant_fold(stmts[idx].body))))
    ELSE LET r == fold_step(stmts, idx)
         IN  IF r.idx = idx
             THEN out   \* not reached when ~fold_hangs(stmts)
             ELSE fold_from(stmts, r.idx, out \o r.out)

constant_fold(stmts) == fold_from(stmts, 1, <<>>)

----------------------------------------------------------------------------
(* bf.rs: peephole_optimization.                                            *)

RECURSIVE peephole_optimization(_)

\* peephole_stmt with pattern 2 leaving the clear as the loop [-] it came
\* from, for a later pass to rewrite
peephole_stmt_clear_as_loop(s) ==
    IF s.op # "Loop"
    THEN <<s>>
    ELSE LET l == s.body
         IN  IF l = <<SDec(1)>> \/ l = <<SInc(1)>>
             THEN <<SClear>>
             ELSE IF /\ Len(l) = 4
                     /\ l[1] = SDec(1)
                     /\ l[2].op = "Next"
                     /\ l[3].op = "Inc"
                     /\ l[4].op = "Prev"
                     /\ l[2].n = l[4].n
             THEN <<SAddOffset(l[3].n, l[2].n), SLoop(<<SDec(1)>>)>>
             ELSE IF Len(l) = 1 /\ l[1].op = "Prev"
             THEN <<SSearchZero(l[1].n * (-1))>>
             ELSE IF Len(l) = 1 /\ l[1].op = "Next"
             THEN <<SSearchZero(l[1].n)>>
             ELSE <<SLoop(peephole_optimization(l))>>

\* peephole_stmt with pattern 2 dropping the count of the Inc: the offset
\* cell gets the source cell once
peephole_stmt_mul_one(s) ==
    IF s.op # "Loop"
    THEN <<s>>
    ELSE LET l == s.body
         IN  IF l = <<SDec(1)>> \/ l = <<SInc(1)>>
             THEN <<SClear>>
             ELSE IF /\ Len(l) = 4
                     /\ l[1] = SDec(1)
                     /\ l[2].op = "Next"
                     /\ l[3].op = "Inc"
                     /\ l[4].op = "Prev"
                     /\ l[2].n = l[4].n
             THEN <<SAddOffset(1, l[2].n), SClear>>
             ELSE IF Len(l) = 1 /\ l[1].op = "Prev"
             THEN <<SSearchZero(l[1].n * (-1))>>
             ELSE IF Len(l) = 1 /\ l[1].op = "Next"
             THEN <<SSearchZero(l[1].n)>>
             ELSE <<SLoop(peephole_optimization(l))>>

\* the closure handed to flat_map: the nodes one node is rewritten to
peephole_stmt(s) ==
    IF s.op # "Loop"
    THEN <<s>>
    ELSE LET l == s.body
         IN  IF l = <<SDec(1)>> \/ l = <<SInc(1)>>
             THEN <<SClear>>
             ELSE IF /\ Len(l) = 4
                     /\ l[1] = SDec(1)
                     /\ l[2].op = "Next"
                     /\ l[3].op = "Inc"
                     /\ l[4].op = "Prev"
                     /\ l[2].n = l[4].n
             THEN <<SAddOffset(l[3].n, l[2].n), SClear>>
             ELSE IF Len(l) = 1 /\ l[1].op = "Prev"
             THEN <<SSearchZero(l[1].n * (-1))>>
             ELSE IF Len(l) = 1 /\ l[1].op = "Next"
             THEN <<SSearchZero(l[1].n)>>
             ELSE <<SLoop(peephole_optimization(l))>>

peephole_optimization(stmts) ==
    IF stmts = <<>>
    THEN <<>>
    ELSE peephole_stmt(Head(stmts)) \o peephole_optimization(Tail(stmts))

optimize(stmts) == peephole_optimization(constant_fold(stmts))

----------------------------------------------------------------------------
(* parser.rs.  A text is a sequence of one-character strings; a parser      *)
(* returns [ok, rest, val]: ok with the input left and the value, or an     *)
(* error (nom's Err::Error) with the input it was given.                    *)

BF_CHARS == {"[", "]", ",", ".", "+", "-", ">", "<"}

bf_chars(i) == SelectSeq(i, LAMBDA c : c \in BF_CHARS)

POk(rest, val) == [ok |-> TRUE, rest |-> rest, val |-> val]
PErr(i) == [ok |-> FALSE, rest |-> i, val |-> <<>>]

char_op(s, stmt, i) ==
    IF i # <<>> /\ Head(i) = s THEN POk(Tail(i), stmt) ELSE PErr(i)

inc(i) == char_op("+", SInc(1), i)
dec(i) == char_op("-", SDec(1), i)
next(i) == char_op(">", SNext(1), i)
prev(i) == char_op("<", SPrev(1), i)
out(i) == char_op(".", SOut, i)
inp(i) == char_op(",", SIn, i)

RECURSIVE stmts(_)
RECURSIVE many0_stmt(_, _)

\* loup refusing a loop without statements
loup_nonempty(i) ==
    IF i = <<>> \/ Head(i) # "["
    THEN PErr(i)
    ELSE LET v == stmts(Tail(i))
         IN  IF v.ok /\ v.val # <<>> /\ v.rest # <<>> /\ Head(v.rest) = "]"
             THEN POk(Tail(v.rest), SLoop(v.val))
             ELSE PErr(i)

\* loup taking the end of the input for the closing bracket
loup_unclosed(i) ==
    IF i = <<>> \/ Head(i) # "["
    THEN PErr(i)
    ELSE LET v == stmts(Tail(i))
         IN  IF v.ok /\ v.rest = <<>>
             THEN POk(v.rest, SLoop(v.val))
             ELSE IF v.ok /\ Head(v.rest) = "]"
             THEN POk(Tail(v.rest), SLoop(v.val))
             ELSE PErr(i)

\* char('[') then terminated(stmts, char(']'))
loup(i) ==
    IF i = <<>> \/ Head(i) # "["
    THEN PErr(i)
    ELSE LET v == stmts(Tail(i))
         IN  IF v.ok /\ v.rest # <<>> /\ Head(v.rest) = "]"
             THEN POk(Tail(v.rest), SLoop(v.val))
             ELSE PErr(i)

\* alt((inc, dec, next, prev, out, inp, loup)): the first that succeeds
alt_stmt(i) ==
    IF inc(i).ok THEN inc(i)
    ELSE IF dec(i).ok THEN dec(i)
    ELSE IF next(i).ok THEN next(i)
    ELSE IF prev(i).ok THEN prev(i)
    ELSE IF out(i).ok THEN out(i)
    ELSE IF inp(i).ok THEN inp(i)
    ELSE loup(i)

\* many0: apply the parser until it fails, collecting the values; a parser
\* that succeeds without consuming is an error (nom's infinite-loop guard)
many0_stmt(i, acc) ==
    LET r == alt_stmt(i)
    IN  IF ~r.ok
        THEN POk(i, acc)
        ELSE IF Len(r.rest) = Len(i)
        THEN PErr(i)
        ELSE many0_stmt(r.rest, Append(acc, r.val))

stmts(i) == many0_stmt(i, <<>>)

\* all_consuming(stmts)
program(i) ==
    LET r == stmts(i)
    IN  IF r.ok /\ r.rest = <<>> THEN r ELSE PErr(i)

----------------------------------------------------------------------------
(* Integer casts.  A cell is held as the signed value Rust holds (i8: -128  *)
(* to 127); casts are modelled by what they do to that value.               *)

\* `x as u8`: the low 8 bits as an unsigned value
as_u8(x) == x % 256

\* `x as i8`: the low 8 bits as a signed value
as_i8(x) == IF x % 256 >= 128 THEN (x % 256) - 256 ELSE x % 256

\* `c as char` for a u8 printed with print!("{}"): the UTF-8 encoding of the
\* code point U+0000..U+00FF, one byte below 128 and two bytes from 128 on
char_utf8(u) == IF u < 128 THEN <<u>> ELSE <<192 + (u \div 64), 128 + (u % 64)>>

----------------------------------------------------------------------------
(* The machine that executes IR.  eng names the engine ("none" while no     *)
(* run is in progress), run the run it performs; stk is the stack of        *)
(* exec_many activations, each the block it iterates and the 1-based        *)
(* position of its next statement; out is the bytes written to stdout, inp  *)
(* the bytes stdin has left; st is "run" while executing, "done" after a    *)
(* normal return, "err" after an Err return, "panic" after a panic; copied  *)
(* is the number of cells the lowered function has copied to its caller.    *)

Idle ==
    [eng |-> "none", run |-> "none", width |-> 8, data |-> <<>>, idx |-> 0,
     out |-> <<>>, inp |-> <<>>, stk |-> <<>>, st |-> "idle", copied |-> 0]

NoRuns == <<>>

NoCfg == [mode |-> "none", eng |-> "none", width |-> 8, tape0 |-> <<>>, pos0 |-> 0]

Frame(blk) == [blk |-> blk, pc |-> 1]

Top(c) == c.stk[Len(c.stk)]

\* the statement the innermost exec_many is about to execute
CurStmt(c) == Top(c).blk[Top(c).pc]

\* the innermost exec_many moves to its next statement
Advance(c) ==
    IF c.st = "run"
    THEN [c EXCEPT !.stk[Len(c.stk)].pc = @ + 1]
    ELSE c

\* the machine is about to execute a statement tagged op on engine e
At(e, op) ==
    /\ m.eng = e
    /\ m.st = "run"
    /\ m.stk # <<>>
    /\ Top(m).pc <= Len(Top(m).blk)
    /\ CurStmt(m).op = op

\* the innermost exec_many has executed its last statement
AtEnd(e) ==
    /\ m.eng = e
    /\ m.st = "run"
    /\ m.stk # <<>>
    /\ Top(m).pc > Len(Top(m).blk)

Panic(c) == [c EXCEPT !.st = "panic"]

Rest == <<src, ir, stage, pass, npass, input, cfg, runs>>

----------------------------------------------------------------------------
(* bf.rs: struct Context, the growable interpreter.  data is the Vec<i8>    *)
(* (data[i + 1] is cell i), idx the pointer.                                *)

Zeros(n) == [i \in 1..n |-> 0]

\* Context::new()
ctx_new == [data |-> <<0>>, idx |-> 0]

\* Context::with_state(v)
ctx_with_state(v) == [data |-> v, idx |-> 0]

\* whether self.data[self.idx] is inside the vector (it panics otherwise)
ctx_in_bounds(c) == c.idx < Len(c.data)

\* self.data[self.idx], read where ctx_in_bounds holds
ctx_cur(c) == c.data[c.idx + 1]

\* self.data[self.idx] = v
ctx_store(c, v) ==
    IF ctx_in_bounds(c) THEN [c EXCEPT !.data[c.idx + 1] = v] ELSE Panic(c)

\* adv without the resize of the vector
adv_no_resize(c, a) == [c EXCEPT !.idx = c.idx + a]

adv(c, a) ==
    LET i == c.idx + a
    IN  [c EXCEPT !.idx = i,
                  !.data = IF i >= Len(c.data)
                           THEN c.data \o Zeros(i + 1 - Len(c.data))
                           ELSE c.data]

\* self.idx.saturating_sub(a)
ret(c, a) == [c EXCEPT !.idx = IF c.idx >= a THEN c.idx - a ELSE 0]

\* a is a u8: d = (data[idx] as u8).wrapping_add(a); data[idx] = d as i8
inc_many(c, a) ==
    IF ctx_in_bounds(c)
    THEN ctx_store(c, as_i8((as_u8(ctx_cur(c)) + a) % 256))
    ELSE Panic(c)

dec_many(c, a) ==
    IF ctx_in_bounds(c)
    THEN ctx_store(c, as_i8((as_u8(ctx_cur(c)) - a) % 256))
    ELSE Panic(c)

\* print!("{}", d as u8 as char)
ctx_out(c) ==
    IF ctx_in_bounds(c)
    THEN [c EXCEPT !.out = @ \o char_utf8(as_u8(ctx_cur(c)))]
    ELSE Panic(c)

\* read_exact of one byte: Err at end of input, else *r = res[0] as i8
ctx_inp(c) ==
    IF ~ctx_in_bounds(c)
    THEN Panic(c)
    ELSE IF c.inp = <<>>
    THEN [c EXCEPT !.st = "err"]
    ELSE [ctx_store(c, as_i8(Head(c.inp))) EXCEPT !.inp = Tail(c.inp)]

ctx_clear(c) == ctx_store(c, 0)

\* the AddOffset arm of Context::exec
ctx_add_offset(c, mul, offset) ==
    IF ~ctx_in_bounds(c)
    THEN Panic(c)
    ELSE LET val == mul * ctx_cur(c)
             c1 == adv(c, offset)
         IN  IF ~ctx_in_bounds(c1)
             THEN Panic(c1)
             ELSE ret(ctx_store(c1, as_i8(ctx_cur(c1) + val)), offset)

\* the cast of a count that clamps at 255 where `as u8` truncates
u64_as_u8_saturating(a) == IF a > 255 THEN 255 ELSE a

\* the u64 count of Inc and Dec cast with `*a as u8`
u64_as_u8(a) == a % 256

CtxExecNext ==
    /\ At("ctx", "Next")
    /\ m.idx + CurStmt(m).n < MaxTape
    /\ m' = Advance(adv(m, CurStmt(m).n))
    /\ UNCHANGED Rest

CtxExecPrev ==
    /\ At("ctx", "Prev")
    /\ m' = Advance(ret(m, CurStmt(m).n))
    /\ UNCHANGED Rest

CtxExecInc ==
    /\ At("ctx", "Inc")
    /\ m' = Advance(inc_many(m, u64_as_u8(CurStmt(m).n)))
    /\ UNCHANGED Rest

CtxExecDec ==
    /\ At("ctx", "Dec")
    /\ m' = Advance(dec_many(m, u64_as_u8(CurStmt(m).n)))
    /\ UNCHANGED Rest

CtxExecOut ==
    /\ At("ctx", "Out")
    /\ Len(m.out) < MaxOut
    /\ m' = Advance(ctx_out(m))
    /\ UNCHANGED Rest

CtxExecIn ==
    /\ At("ctx", "In")
    /\ m' = Advance(ctx_inp(m))
    /\ UNCHANGED Rest

CtxExecClear ==
    /\ At("ctx", "Clear")
    /\ m' = Advance(ctx_clear(m))
    /\ UNCHANGED Rest

\* while self.cur()? != 0 { self.exec_many(l)?; }: the test of the loop,
\* entering the body or leaving the loop
\* the Loop arm testing the cell as a signed value: cur > 0
CtxExecLoop_signed_test ==
    /\ At("ctx", "Loop")
    /\ m' = IF ~ctx_in_bounds(m)
            THEN Panic(m)
            ELSE IF ctx_cur(m) > 0
            THEN [m EXCEPT !.stk = Append(@, Frame(CurStmt(m).body))]
            ELSE Advance(m)
    /\ UNCHANGED Rest

\* while self.cur()? != 0 { self.exec_many(l)?; }: one test of the loop
CtxExecLoop ==
    /\ At("ctx", "Loop")
    /\ m' = IF ~ctx_in_bounds(m)
            THEN Panic(m)
            ELSE IF ctx_cur(m) # 0
            THEN [m EXCEPT !.stk = Append(@, Frame(CurStmt(m).body))]
            ELSE Advance(m)
    /\ UNCHANGED Rest

CtxExecAddOffset ==
    /\ At("ctx", "AddOffset")
    /\ m.idx + CurStmt(m).offset < MaxTape
    /\ m' = Advance(ctx_add_offset(m, CurStmt(m).mul, CurStmt(m).offset))
    /\ UNCHANGED Rest

\* while self.cur()? != 0 { ret or adv }: one test of the loop
CtxExecSearchZero ==
    /\ At("ctx", "SearchZero")
    /\ LET stride == CurStmt(m).stride
       IN  /\ (stride >= 0 /\ ctx_in_bounds(m) /\ ctx_cur(m) # 0)
                => m.idx + stride < MaxTape
           /\ m' = IF ~ctx_in_bounds(m)
                   THEN Panic(m)
                   ELSE IF ctx_cur(m) = 0
                   THEN Advance(m)
                   ELSE IF stride < 0
                   THEN ret(m, stride * (-1))
                   ELSE adv(m, stride)
    /\ UNCHANGED Rest

\* exec_many has executed its last statement and returns Ok(()): to the
\* test of the Loop that called it, or to the caller of the run
CtxExecManyReturn ==
    /\ AtEnd("ctx")
    /\ m' = IF Len(m.stk) = 1
            THEN [m EXCEPT !.stk = <<>>, !.st = "done"]
            ELSE [m EXCEPT !.stk = SubSeq(@, 1, Len(@) - 1)]
    /\ UNCHANGED Rest

CtxStep ==
    \/ CtxExecNext
    \/ CtxExecPrev
    \/ CtxExecInc
    \/ CtxExecDec
    \/ CtxExecOut
    \/ CtxExecIn
    \/ CtxExecClear
    \/ CtxExecLoop
    \/ CtxExecAddOffset
    \/ CtxExecSearchZero
    \/ CtxExecManyReturn

----------------------------------------------------------------------------
(* bf/panicking.rs: StaticContext8/16/32/64, the fixed-tape interpreters    *)
(* the command line runs.  data is the array [$num; NUM_CELLS], held as the *)
(* function from the indices of its non-zero cells to their values.  pos is *)
(* a usize; it is held as the value `pos as isize` reads, so that a usize   *)
(* that wrapped below zero to 2^64 - d is held as -d.                       *)

NUM_CELLS == 64 * 1024

\* a value cast to the cell type $num (`as i8`, `as i16`, `as i32`, `as
\* i64`): its low width bits as a signed value.  At widths 32 and 64 every
\* integer the model computes is inside the range of the type, where the cast
\* is the identity.
as_num(x, width) ==
    IF width = 8 THEN as_i8(x)
    ELSE IF width = 16
    THEN (IF x % 65536 >= 32768 THEN (x % 65536) - 65536 ELSE x % 65536)
    ELSE x

arr_get(d, i) == IF i \in DOMAIN d THEN d[i] ELSE 0

arr_put(d, i, v) ==
    IF v = 0
    THEN [j \in DOMAIN d \ {i} |-> d[j]]
    ELSE [j \in DOMAIN d \cup {i} |-> IF j = i THEN v ELSE d[j]]

\* StaticContext::new()
sc_new == [data |-> <<>>, idx |-> 0]

\* StaticContext::with_state(data): the first NUM_CELLS values from cell 0
sc_with_state(v) ==
    [data |-> [i \in {j \in 0..(Len(v) - 1) : j < NUM_CELLS /\ v[j + 1] # 0}
                   |-> v[i + 1]],
     idx |-> 0]

\* whether self.data[self.pos] is inside the array (it panics otherwise)
sc_in_bounds(c) == 0 <= c.idx /\ c.idx < NUM_CELLS

sc_cur(c) == arr_get(c.data, c.idx)

sc_store(c, v) ==
    IF sc_in_bounds(c) THEN [c EXCEPT !.data = arr_put(@, c.idx, v)] ELSE Panic(c)

\* self.pos = (self.pos as isize + offset) as usize
adj_pos(c, offset) == [c EXCEPT !.idx = c.idx + offset]

\* self.data[self.pos] = ((self.cur() as i64).wrapping_add(val)) as $num
adj_val(c, val) ==
    IF sc_in_bounds(c) THEN sc_store(c, as_num(sc_cur(c) + val, c.width)) ELSE Panic(c)

sc_clear(c) == sc_store(c, 0)

\* stdin().read_exact(&mut dest).unwrap(); self.data[self.pos] = dest[0] as $num
sc_inp(c) ==
    IF c.inp = <<>>
    THEN Panic(c)
    ELSE [sc_store(c, as_num(Head(c.inp), c.width)) EXCEPT !.inp = Tail(c.inp)]

\* print!("{}", self.cur() as u8 as char)
sc_out(c) ==
    IF sc_in_bounds(c)
    THEN [c EXCEPT !.out = @ \o char_utf8(as_u8(sc_cur(c)))]
    ELSE Panic(c)

\* the AddOffset arm storing the product without the destination's value
sc_add_offset_overwrite(c, mul, offset) ==
    IF ~sc_in_bounds(c)
    THEN Panic(c)
    ELSE LET cc == sc_cur(c) * mul
             dest == c.idx + offset
         IN  IF dest >= NUM_CELLS
             THEN Panic(c)
             ELSE [c EXCEPT !.data = arr_put(@, dest, as_num(cc, c.width))]

\* the AddOffset arm of StaticContext::exec
sc_add_offset(c, mul, offset) ==
    IF ~sc_in_bounds(c)
    THEN Panic(c)
    ELSE LET cc == sc_cur(c) * mul
             dest == c.idx + offset
         IN  IF dest >= NUM_CELLS
             THEN Panic(c)
             ELSE [c EXCEPT !.data =
                       arr_put(@, dest, as_num(cc + arr_get(c.data, dest), c.width))]

\* the run is followed while the pointer is within MaxTape cells of its start
NearStart(i) == i < cfg.pos0 + MaxTape

ScExecNext ==
    /\ At("sc", "Next")
    /\ NearStart(m.idx + CurStmt(m).n)
    /\ m' = Advance(adj_pos(m, CurStmt(m).n))
    /\ UNCHANGED Rest

ScExecPrev ==
    /\ At("sc", "Prev")
    /\ m' = Advance(adj_pos(m, -CurStmt(m).n))
    /\ UNCHANGED Rest

ScExecInc ==
    /\ At("sc", "Inc")
    /\ m' = Advance(adj_val(m, CurStmt(m).n))
    /\ UNCHANGED Rest

ScExecDec ==
    /\ At("sc", "Dec")
    /\ m' = Advance(adj_val(m, -CurStmt(m).n))
    /\ UNCHANGED Rest

ScExecOut ==
    /\ At("sc", "Out")
    /\ Len(m.out) < MaxOut
    /\ m' = Advance(sc_out(m))
    /\ UNCHANGED Rest

ScExecIn ==
    /\ At("sc", "In")
    /\ m' = Advance(sc_inp(m))
    /\ UNCHANGED Rest

\* while self.cur() != 0 { self.exec_many(l) }: the test of the loop
ScExecLoop ==
    /\ At("sc", "Loop")
    /\ m' = IF ~sc_in_bounds(m)
            THEN Panic(m)
            ELSE IF sc_cur(m) # 0
            THEN [m EXCEPT !.stk = Append(@, Frame(CurStmt(m).body))]
            ELSE Advance(m)
    /\ UNCHANGED Rest

ScExecClear ==
    /\ At("sc", "Clear")
    /\ m' = Advance(sc_clear(m))
    /\ UNCHANGED Rest

ScExecAddOffset ==
    /\ At("sc", "AddOffset")
    /\ m' = Advance(sc_add_offset(m, CurStmt(m).mul, CurStmt(m).offset))
    /\ UNCHANGED Rest

\* while self.cur() != 0 { self.adj_pos(*stride) }: one test of the loop
ScExecSearchZero ==
    /\ At("sc", "SearchZero")
    /\ NearStart(m.idx + CurStmt(m).stride)
    /\ m' = IF ~sc_in_bounds(m)
            THEN Panic(m)
            ELSE IF sc_cur(m) = 0
            THEN Advance(m)
            ELSE adj_pos(m, CurStmt(m).stride)
    /\ UNCHANGED Rest

\* exec_many has executed its last statement and returns
ScExecManyReturn ==
    /\ AtEnd("sc")
    /\ m' = IF Len(m.stk) = 1
            THEN [m EXCEPT !.stk = <<>>, !.st = "done"]
            ELSE [m EXCEPT !.stk = SubSeq(@, 1, Len(@) - 1)]
    /\ UNCHANGED Rest

ScStep ==
    \/ ScExecNext
    \/ ScExecPrev
    \/ ScExecInc
    \/ ScExecDec
    \/ ScExecOut
    \/ ScExecIn
    \/ ScExecLoop
    \/ ScExecClear
    \/ ScExecAddOffset
    \/ ScExecSearchZero
    \/ ScExecManyReturn

----------------------------------------------------------------------------
(* jit.rs: the function CodeGen::lower_bf emits (jit_bf / bf_main), by the  *)
(* instructions compile_stmt builds for each statement.  data is the alloca *)
(* of NUM_CELLS i8, held as the function from the indices of the cells that *)
(* differ from what the memset left to their values; pos is the word-sized  *)
(* slot, held as its signed reading.  write_char and read_char are the      *)
(* runtime's (crate bfrt); the machine ends "abort" when read_char aborts   *)
(* and "ub" when an instruction has undefined behaviour.                    *)

JIT_NUM_CELLS == 64 * 1024

\* the length handed to llvm.memset in lower_bf
MEMSET_LEN == 30000

\* main.rs: let mut ctx = [0i8; 30000], the buffer handed to the function
JIT_BUF_LEN == 30000

I8 == -128..127

jit_in_bounds(c) == 0 <= c.idx /\ c.idx < JIT_NUM_CELLS

Ub(c) == [c EXCEPT !.st = "ub"]

\* what a load of data[i] can give: the value stored, zero where the memset
\* wrote, anything where nothing has been written
jit_loads(c, i) ==
    IF i \in DOMAIN c.data THEN {c.data[i]}
    ELSE IF i < MEMSET_LEN THEN {0}
    ELSE I8

jit_store(c, i, v) ==
    [c EXCEPT !.data =
        IF v = 0 /\ i < MEMSET_LEN
        THEN [j \in DOMAIN c.data \ {i} |-> c.data[j]]
        ELSE [j \in DOMAIN c.data \cup {i} |-> IF j = i THEN v ELSE c.data[j]]]

\* llvm.usub.sat on the word-sized pos
usub_sat(p, u) ==
    IF p >= 0 THEN (IF p >= u THEN p - u ELSE 0) ELSE p - u

\* bfrt::write_char(c): the byte is written to stdout
write_char(c, v) == [c EXCEPT !.out = Append(@, as_u8(v))]

\* bfrt::read_char(): the next byte of stdin as an i8; the process is aborted
\* when there is none
read_char_aborts(c) == c.inp = <<>>
read_char(c) == as_i8(Head(c.inp))

JitNext ==
    /\ At("jit", "Next")
    /\ NearStart(m.idx + CurStmt(m).n)
    /\ m' = Advance([m EXCEPT !.idx = @ + CurStmt(m).n])
    /\ UNCHANGED Rest

JitPrev ==
    /\ At("jit", "Prev")
    /\ m' = Advance([m EXCEPT !.idx = usub_sat(@, CurStmt(m).n)])
    /\ UNCHANGED Rest

JitInc ==
    /\ At("jit", "Inc")
    /\ IF jit_in_bounds(m)
       THEN \E v \in jit_loads(m, m.idx) :
                m' = Advance(jit_store(m, m.idx, as_i8(v + u64_as_u8(CurStmt(m).n))))
       ELSE m' = Ub(m)
    /\ UNCHANGED Rest

JitDec ==
    /\ At("jit", "Dec")
    /\ IF jit_in_bounds(m)
       THEN \E v \in jit_loads(m, m.idx) :
                m' = Advance(jit_store(m, m.idx, as_i8(v - u64_as_u8(CurStmt(m).n))))
       ELSE m' = Ub(m)
    /\ UNCHANGED Rest

JitOut ==
    /\ At("jit", "Out")
    /\ Len(m.out) < MaxOut
    /\ IF jit_in_bounds(m)
       THEN \E v \in jit_loads(m, m.idx) : m' = Advance(write_char(m, v))
       ELSE m' = Ub(m)
    /\ UNCHANGED Rest

JitIn ==
    /\ At("jit", "In")
    /\ m' = IF read_char_aborts(m)
            THEN [m EXCEPT !.st = "abort"]
            ELSE IF jit_in_bounds(m)
            THEN Advance([jit_store(m, m.idx, read_char(m)) EXCEPT !.inp = Tail(@)])
            ELSE Ub([m EXCEPT !.inp = Tail(@)])
    /\ UNCHANGED Rest

\* block "loop": load the cell, compare with zero, branch to the body or
\* to "afterloop"
JitLoop ==
    /\ At("jit", "Loop")
    /\ IF jit_in_bounds(m)
       THEN \E v \in jit_loads(m, m.idx) :
                m' = IF v # 0
                     THEN [m EXCEPT !.stk = Append(@, Frame(CurStmt(m).body))]
                     ELSE Advance(m)
       ELSE m' = Ub(m)
    /\ UNCHANGED Rest

JitClear ==
    /\ At("jit", "Clear")
    /\ m' = IF jit_in_bounds(m) THEN Advance(jit_store(m, m.idx, 0)) ELSE Ub(m)
    /\ UNCHANGED Rest

JitAddOffset ==
    /\ At("jit", "AddOffset")
    /\ LET dest == m.idx + CurStmt(m).offset
       IN  IF jit_in_bounds(m) /\ dest < JIT_NUM_CELLS
           THEN \E v \in jit_loads(m, m.idx) : \E w \in jit_loads(m, dest) :
                    m' = Advance(jit_store(m, dest, as_i8(w + v * CurStmt(m).mul)))
           ELSE m' = Ub(m)
    /\ UNCHANGED Rest

\* block "cond_block": load, compare, branch to "search_body" (pos + stride)
\* or to "after_loop"
JitSearchZero ==
    /\ At("jit", "SearchZero")
    /\ NearStart(m.idx + CurStmt(m).stride)
    /\ IF jit_in_bounds(m)
       THEN \E v \in jit_loads(m, m.idx) :
                m' = IF v # 0
                     THEN [m EXCEPT !.idx = @ + CurStmt(m).stride]
                     ELSE Advance(m)
       ELSE m' = Ub(m)
    /\ UNCHANGED Rest

\* the end of a loop body: the unconditional branch back to block "loop"
JitLoopBack ==
    /\ AtEnd("jit")
    /\ Len(m.stk) > 1
    /\ m' = [m EXCEPT !.stk = SubSeq(@, 1, Len(@) - 1)]
    /\ UNCHANGED Rest

\* after the last statement: memcpy of NUM_CELLS cells to the out-parameter,
\* then ret.  A copy longer than the caller's buffer writes past it, which is
\* undefined behaviour.
JitReturn ==
    /\ AtEnd("jit")
    /\ Len(m.stk) = 1
    /\ \E s \in (IF JIT_NUM_CELLS <= JIT_BUF_LEN THEN {"done"} ELSE {"done", "ub"}) :
           m' = [m EXCEPT !.stk = <<>>, !.st = s, !.copied = JIT_NUM_CELLS]
    /\ UNCHANGED Rest

JitStep ==
    \/ JitNext
    \/ JitPrev
    \/ JitInc
    \/ JitDec
    \/ JitOut
    \/ JitIn
    \/ JitLoop
    \/ JitClear
    \/ JitAddOffset
    \/ JitSearchZero
    \/ JitLoopBack
    \/ JitReturn

----------------------------------------------------------------------------
(* SpecOpt: the optimizer passes applied to hand-built IR sequences.        *)

Counts == 1..MaxCount

Leaves ==
    {SNext(n) : n \in Counts} \cup {SPrev(n) : n \in Counts}
        \cup {SInc(n) : n \in Counts} \cup {SDec(n) : n \in Counts}
        \cup {SOut, SIn, SClear}

\* the loop bodies of pattern 2 of the peephole pass, and its near misses
IdiomBodies ==
    {<<SDec(1), SNext(n), SInc(k), SPrev(b)>> : n \in Counts, k \in Counts, b \in Counts}

LoopBodies == {<<>>} \cup {<<x>> : x \in Leaves} \cup IdiomBodies

Loops1 == {SLoop(l) : l \in LoopBodies}

Loops2 ==
    {SLoop(<<SLoop(<<SDec(1)>>)>>), SLoop(<<SLoop(<<SNext(1)>>), SOut>>),
     SLoop(<<SLoop(<<SLoop(<<SInc(1)>>)>>)>>)}

Nodes == Leaves \cup Loops1 \cup Loops2

SeqsUpTo(S, n) == UNION {[1..k -> S] : k \in 0..n}

IRSet == SeqsUpTo(Nodes, MaxIRLen)

InitOpt ==
    /\ ir \in IRSet
    /\ stage = "ir"
    /\ pass = "none"
    /\ npass = 0
    /\ src = <<>>
    /\ input = <<>>
    /\ cfg = NoCfg
    /\ m = Idle
    /\ runs = NoRuns

\* constant_fold(ir) returns
ApplyConstantFold ==
    /\ stage = "ir"
    /\ npass < MaxPasses
    /\ ~fold_hangs(ir)
    /\ ir' = constant_fold(ir)
    /\ pass' = "constant_fold"
    /\ npass' = npass + 1
    /\ UNCHANGED <<src, stage, input, cfg, m, runs>>

\* constant_fold(ir) never returns: its scan loop spins on one node
ApplyConstantFoldHangs ==
    /\ stage = "ir"
    /\ npass < MaxPasses
    /\ fold_hangs(ir)
    /\ stage' = "hung"
    /\ pass' = "constant_fold"
    /\ UNCHANGED <<src, ir, npass, input, cfg, m, runs>>

ApplyPeephole ==
    /\ stage = "ir"
    /\ npass < MaxPasses
    /\ ir' = peephole_optimization(ir)
    /\ pass' = "peephole_optimization"
    /\ npass' = npass + 1
    /\ UNCHANGED <<src, stage, input, cfg, m, runs>>

NextOpt == ApplyConstantFold \/ ApplyConstantFoldHangs \/ ApplyPeephole

SpecOpt == InitOpt /\ [][NextOpt]_vars

----------------------------------------------------------------------------
(* Spec: a source text is parsed, run as parsed, folded, run folded,        *)
(* peephole-optimized and run optimized (mode "pipeline"); or one program,  *)
(* parsed or built by hand, is run once on a machine state built by hand,   *)
(* as the unit tests of bf.rs and parser.rs do (mode "unit").               *)

\* the loop idioms the peephole pass knows, and near misses of them
Idioms ==
    {<<"[", "-", "]">>, <<"[", "+", "]">>, <<"[", ">", "]">>, <<"[", "<", "]">>,
     <<"[", "-", ">", "+", "<", "]">>, <<"[", "-", ">", "+", "+", "<", "]">>,
     <<"[", "-", ">", "+", "<", "<", "]">>, <<"[", "-", "-", "]">>,
     <<"[", "[", "-", "]", ">", "]">>}

\* what precedes and follows an idiom in a text
IdiomPrefixes == {<<>>, <<"+">>, <<"-">>, <<",">>}
IdiomSuffixes == {<<>>, <<">", ".">>}

IdiomTexts ==
    {a \o l \o b : a \in IdiomPrefixes, l \in Idioms, b \in IdiomSuffixes}

CharTexts == SeqsUpTo(BF_CHARS, MaxChars)

\* the end-to-end scenarios E1..E6 of the documentation and the parser's
\* test, each with the tape it starts from
Scenarios ==
    {[src |-> <<"+", "+", ">", "+", "+", "+", "[", "-", "<", "+", ">", "]", "<", ".">>,
      tape0 |-> <<0>>, input |-> <<>>],
     [src |-> <<"+", "+", "+", "+", "+", "[", "-", ">", "+", "+", "+", "<", "]", ">", ".">>,
      tape0 |-> <<0>>, input |-> <<>>],
     [src |-> <<",", ".">>, tape0 |-> <<0>>, input |-> <<65>>],
     [src |-> <<"[", "-", "]">>, tape0 |-> <<42>>, input |-> <<>>],
     [src |-> <<"+", "+", ">", ">", ">", ">", "[", "<", "]", "+">>,
      tape0 |-> <<0>>, input |-> <<>>],
     [src |-> <<"[", "[", ">", "<", "-", "]", ">", "[", "-", ">", "+", "<", "]", ">", ".", "<", "]">>,
      tape0 |-> <<1, 30, 30>>, input |-> <<>>],
     [src |-> <<"#", "+", " ", ".">>, tape0 |-> <<0>>, input |-> <<>>]}

\* the nodes the parser emits for WrapRun times + (or -) and then `.`
WrapRuns ==
    {[i \in 1..WrapRun |-> SInc(1)] \o <<SOut>>,
     [i \in 1..WrapRun |-> SDec(1)] \o <<SOut>>}

InitTapes == {<<0>>, <<2, -1>>}

\* stdin of a text that reads: empty, or a small byte and one above 127
PipelineInputs(text) ==
    IF \E i \in 1..Len(text) : text[i] = ","
    THEN {<<>>, <<1, 200>>}
    ELSE {<<>>}

PipeCfg(tape) ==
    [mode |-> "pipeline", eng |-> "none", width |-> 8, tape0 |-> tape, pos0 |-> 0]

InitPipeline ==
    /\ \/ /\ src \in CharTexts \cup IdiomTexts
          /\ \E tape \in InitTapes : cfg = PipeCfg(tape)
          /\ input \in PipelineInputs(src)
       \/ \E sc \in Scenarios :
              src = sc.src /\ cfg = PipeCfg(sc.tape0) /\ input = sc.input
       \/ /\ src = <<>>
          /\ \E tape \in InitTapes : cfg = PipeCfg(tape)
          /\ input = <<>>
    /\ \/ src # <<>> /\ ir = <<>> /\ stage = "text"
       \/ src = <<>> /\ ir \in WrapRuns /\ stage = "parsed"
       \/ src = <<>> /\ ir = <<>> /\ stage = "text"
    /\ pass = "none"
    /\ npass = 0
    /\ m = Idle
    /\ runs = NoRuns

\* main.rs:44-46: bf_chars, then program(..).expect("Unable to parse")
Parse ==
    /\ stage = "text"
    /\ LET r == program(bf_chars(src))
       IN  IF r.ok
           THEN ir' = r.val /\ stage' = "parsed"
           ELSE ir' = ir /\ stage' = "parse_error"
    /\ UNCHANGED <<src, pass, npass, input, cfg, m, runs>>

\* the runs made of the program the pipeline holds at a stage, in order:
\* the growable interpreter, and from an all-zero tape also the command
\* line's 8-bit interpreter and the lowered function
StageRuns ==
    IF cfg.mode = "unit"
    THEN IF stage = "parsed" THEN <<"unit">> ELSE <<>>
    ELSE IF stage = "parsed"
    THEN <<"plain">> \o (IF cfg.tape0 = <<0>> THEN <<"sc", "jit">> ELSE <<>>)
    ELSE IF stage = "folded" THEN <<"fold">>
    ELSE IF stage = "optimized"
    THEN <<"opt">> \o (IF cfg.tape0 = <<0>> THEN <<"sc_opt", "jit_opt">> ELSE <<>>)
    ELSE <<>>

RunsLeft == SelectSeq(StageRuns, LAMBDA r : r \notin DOMAIN runs)

RunEngine(r) ==
    IF r = "unit" THEN cfg.eng
    ELSE IF r \in {"sc", "sc_opt"} THEN "sc"
    ELSE IF r \in {"jit", "jit_opt"} THEN "jit"
    ELSE "ctx"

\* the tape of the fixed engines from the vector the configuration gives
ArrOf(v) == sc_with_state(v).data

\* the machine as the run's caller builds it and calls exec_many(ir), or
\* as the lowered function's entry block leaves it
NewMachine(r) ==
    LET e == RunEngine(r)
    IN  [eng |-> e, run |-> r, width |-> cfg.width,
         data |-> IF e = "ctx" THEN cfg.tape0 ELSE ArrOf(cfg.tape0),
         idx |-> cfg.pos0,
         out |-> <<>>, inp |-> input, stk |-> <<Frame(ir)>>, st |-> "run",
         copied |-> 0]

StartRun ==
    /\ m.st = "idle"
    /\ RunsLeft # <<>>
    /\ m' = NewMachine(Head(RunsLeft))
    /\ UNCHANGED Rest

Halted == {"done", "err", "panic", "abort", "ub"}

\* the run has returned to its caller, which keeps what it left
FinishRun ==
    /\ m.st \in Halted
    /\ runs' = (m.run :> m) @@ runs
    /\ m' = Idle
    /\ UNCHANGED <<src, ir, stage, pass, npass, input, cfg>>

\* optimize, first half: constant_fold(stmts)
FoldPass ==
    /\ cfg.mode = "pipeline"
    /\ stage = "parsed"
    /\ m.st = "idle"
    /\ RunsLeft = <<>>
    /\ ~fold_hangs(ir)
    /\ ir' = constant_fold(ir)
    /\ stage' = "folded"
    /\ pass' = "constant_fold"
    /\ npass' = npass + 1
    /\ UNCHANGED <<src, input, cfg, m, runs>>

\* optimize, second half: peephole_optimization of the folded sequence
PeepholePass ==
    /\ cfg.mode = "pipeline"
    /\ stage = "folded"
    /\ m.st = "idle"
    /\ RunsLeft = <<>>
    /\ ir' = peephole_optimization(ir)
    /\ stage' = "optimized"
    /\ pass' = "peephole_optimization"
    /\ npass' = npass + 1
    /\ UNCHANGED <<src, input, cfg, m, runs>>

\* the cell values of the hand-built machine states: zero, small values and
\* the ends of the range where the width allows
UnitCells(width) ==
    IF width = 8 THEN {0, 1, 2, 127, -128, -1}
    ELSE IF width = 16 THEN {0, 1, 255, 32767, -32768, -1}
    ELSE {0, 1, 300, 127, -128, -1}

UnitMuls == {-1, 0, 1, 2, 3, 255, 256}

\* the vector with v at cell p, w at cell q and zero elsewhere, of length len
TapeWith(len, p, v, q, w) ==
    [i \in 1..len |-> IF i = p + 1 THEN v ELSE IF i = q + 1 THEN w ELSE 0]

UnitEngines ==
    {[eng |-> "ctx", width |-> 8], [eng |-> "sc", width |-> 8],
     [eng |-> "sc", width |-> 16], [eng |-> "sc", width |-> 32],
     [eng |-> "sc", width |-> 64]}

UnitCfg(e, tape, p) ==
    [mode |-> "unit", eng |-> e.eng, width |-> e.width, tape0 |-> tape, pos0 |-> p]

AdderLoop == SLoop(<<SDec(1), SNext(1), SInc(1), SPrev(1)>>)
AdderText == <<"[", "-", ">", "+", "<", "]">>

\* AddOffset{mul, offset} then Clear, on every engine, with cell[pos] and
\* cell[pos + offset] given; on the growable tape also with cell[pos] last
InitUnitAddOffset ==
    \E e \in UnitEngines, p \in 0..MaxPos, n \in 1..MaxOffset, k \in UnitMuls :
    \E v \in UnitCells(e.width), w \in UnitCells(e.width) :
        /\ ir = <<SAddOffset(k, n), SClear>>
        /\ src = <<>>
        /\ stage = "parsed"
        /\ \/ cfg = UnitCfg(e, TapeWith(p + n + 1, p, v, p + n, w), p)
           \/ e.eng = "ctx" /\ w = 0 /\ cfg = UnitCfg(e, TapeWith(p + 1, p, v, p, v), p)

\* the adder loop of tests::adder, built by hand or parsed from its text,
\* on the growable interpreter
InitUnitAdder ==
    \E p \in 0..MaxPos, v \in {0, 1, 2, -1}, w \in UnitCells(8) :
        /\ cfg = UnitCfg([eng |-> "ctx", width |-> 8],
                         TapeWith(p + 2, p, v, p + 1, w), p)
        /\ \/ ir = <<AdderLoop>> /\ src = <<>> /\ stage = "parsed"
           \/ ir = <<>> /\ src = AdderText /\ stage = "text"

\* Prev(n) alone, on every engine, from every pointer
InitUnitPrev ==
    \E e \in UnitEngines, p \in 0..(MaxPos + 1), n \in 1..(MaxOffset + 1) :
        /\ ir = <<SPrev(n)>>
        /\ src = <<>>
        /\ stage = "parsed"
        /\ cfg = UnitCfg(e, Zeros(p + 1), p)

InitUnit ==
    /\ InitUnitAddOffset \/ InitUnitAdder \/ InitUnitPrev
    /\ input = <<>>
    /\ pass = "none"
    /\ npass = 0
    /\ m = Idle
    /\ runs = NoRuns

Init == InitPipeline \/ InitUnit

Next ==
    \/ Parse
    \/ StartRun
    \/ FinishRun
    \/ FoldPass
    \/ PeepholePass
    \/ CtxStep
    \/ ScStep
    \/ JitStep

Spec == Init /\ [][Next]_vars

----------------------------------------------------------------------------
(* Claims about the optimizer passes (SpecOpt).                             *)

\* C3: constant_fold is idempotent: folding the result of a fold gives the
\* same sequence, counts of Next/Prev/Inc/Dec included.  (The code counts
\* the nodes of a run, not their counts, so Inc(2) folds to Inc(1).)
C3_FoldIdempotent ==
    (stage = "ir" /\ pass = "constant_fold") => constant_fold(ir) = ir

\* C4: peephole_optimization is idempotent: applied to its own result it
\* returns that result unchanged.
C4_PeepholeIdempotent ==
    (stage = "ir" /\ pass = "peephole_optimization")
        => peephole_optimization(ir) = ir

\* C4 witness: the pass has rewritten an offset-add loop and a nested clear
\* loop, so its result holds AddOffset, Clear and a Loop around Clear.
C4_Witness ==
    /\ pass = "peephole_optimization"
    /\ ir = <<SLoop(<<SClear>>), SAddOffset(2, 1), SClear>>

----------------------------------------------------------------------------
(* Claims about the runs of one program (Spec).                             *)

\* C1: a program of count-1 nodes and its optimized form, run by the
\* growable interpreter from the same tape with the same input, end with the
\* same cell vector, the same pointer and the same output bytes.
C1_SameFinalState ==
    ({"plain", "opt"} \subseteq DOMAIN runs) =>
        /\ runs["opt"].st = runs["plain"].st
        /\ runs["opt"].data = runs["plain"].data
        /\ runs["opt"].idx = runs["plain"].idx
        /\ runs["opt"].out = runs["plain"].out

\* C1 as the code has it: the two runs end the same way with the same
\* pointer and the same output bytes, and the cell vector of the optimized
\* run is the one of the plain run followed by zero or more zero cells
\* (AddOffset grows the tape to pos + offset even when cell[pos] is 0).
C1_SameUpToTrailingZeros ==
    ({"plain", "opt"} \subseteq DOMAIN runs) =>
        LET a == runs["plain"]
            b == runs["opt"]
        IN  /\ b.st = a.st
            /\ b.idx = a.idx
            /\ b.out = a.out
            /\ Len(b.data) >= Len(a.data)
            /\ \A i \in 1..Len(b.data) :
                   b.data[i] = IF i <= Len(a.data) THEN a.data[i] ELSE 0

\* C1 witness: an offset-add loop was rewritten, both runs ended and the
\* optimized one moved a non-zero cell and wrote output.
C1_Witness ==
    /\ {"plain", "opt"} \subseteq DOMAIN runs
    /\ \E i \in 1..Len(ir) : ir[i].op = "AddOffset" /\ ir[i].mul = 3
    /\ runs["opt"].st = "done"
    /\ runs["opt"].out = <<15>>

\* C2: for a well-formed text and any input, the 8-bit fixed-tape
\* interpreter and the lowered function write the same output bytes.
C2_SameOutput ==
    /\ ({"sc", "jit"} \subseteq DOMAIN runs)
           => runs["sc"].out = runs["jit"].out
    /\ ({"sc_opt", "jit_opt"} \subseteq DOMAIN runs)
           => runs["sc_opt"].out = runs["jit_opt"].out

\* C5: in the growable interpreter the pointer is inside the tape after
\* every executed statement: 0 <= idx < data.len(), and no access fails.
C5_PointerInTape ==
    (m.eng = "ctx") =>
        /\ m.st # "panic"
        /\ 0 <= m.idx
        /\ m.idx < Len(m.data)

\* C5 witness: a run from Context::new() has searched to the right and
\* ended on the cell the search appended.
C5_Witness ==
    /\ m.eng = "ctx"
    /\ m.st = "done"
    /\ cfg.tape0 = <<0>>
    /\ \E i \in 1..Len(ir) : ir[i].op = "SearchZero" /\ ir[i].stride > 0
    /\ m.idx > 0
    /\ m.idx = Len(m.data) - 1

\* C7: a sequence of count-1 nodes and its constant_fold, run from the same
\* tape with the same input, end with the same tape, pointer and output,
\* also when a run of Inc or Dec is 2^8 nodes or longer.
C7_FoldKeepsBehaviour ==
    ({"plain", "fold"} \subseteq DOMAIN runs) =>
        /\ runs["fold"].st = runs["plain"].st
        /\ runs["fold"].data = runs["plain"].data
        /\ runs["fold"].idx = runs["plain"].idx
        /\ runs["fold"].out = runs["plain"].out

\* C7 witness: WrapRun Inc(1) were folded to Inc(WrapRun), past the range of
\* the cell, and the folded run has written the wrapped value.
C7_Witness ==
    /\ "fold" \in DOMAIN runs
    /\ ir = <<SInc(WrapRun), SOut>>
    /\ WrapRun >= 256
    /\ cfg.tape0 = <<0>>
    /\ runs["fold"].out = <<WrapRun % 256>>

\* the source text of the SearchZero example
SearchText == <<"+", "+", ">", ">", ">", ">", "[", "<", "]", "+">>

\* C9: `++>>>>[<]+` on an all-zero tape with no input ends with the pointer
\* at 0 and cell[0] = 3 and no output, with and without optimize.
C9_SearchEndsAtZero ==
    (src = SearchText /\ cfg.tape0 = <<0>> /\ input = <<>>) =>
        \A r \in {"plain", "opt"} \cap DOMAIN runs :
            /\ runs[r].st = "done"
            /\ runs[r].idx = 0
            /\ runs[r].data[1] = 3
            /\ runs[r].out = <<>>

\* C9 as the code has it: cell[4] is 0 when the search starts, so the
\* pointer stays at 4; the run ends with the tape 2 0 0 0 1, the pointer at
\* 4 and no output, with and without optimize.
C9_SearchStaysAtFour ==
    (src = SearchText /\ cfg.tape0 = <<0>> /\ input = <<>>) =>
        \A r \in {"plain", "opt"} \cap DOMAIN runs :
            /\ runs[r].st = "done"
            /\ runs[r].idx = 4
            /\ runs[r].data = <<2, 0, 0, 0, 1>>
            /\ runs[r].out = <<>>

\* C9 witness: both runs of the text have ended and the optimized program
\* holds the SearchZero the loop was rewritten to.
C9_Witness ==
    /\ src = SearchText
    /\ {"plain", "opt"} \subseteq DOMAIN runs
    /\ ir = <<SInc(2), SNext(4), SSearchZero(-1), SInc(1)>>

----------------------------------------------------------------------------
(* Claims about single statements run from a given machine state (Spec).    *)

C8_AdderLoop ==
    (/\ cfg.mode = "unit"
     /\ "unit" \in DOMAIN runs
     /\ ir = <<AdderLoop>>) =>
        LET r == runs["unit"]
            pos == cfg.pos0
            v == as_u8(cfg.tape0[pos + 1])
            w == as_u8(cfg.tape0[pos + 2])
        IN  /\ r.st = "done"
            /\ r.idx = pos
            /\ r.data[pos + 1] = 0
            /\ as_u8(r.data[pos + 2]) = (v + w) % 256

\* C8 witness: the loop parsed from the text has run 255 times from
\* v = 255 and w = 2 and left 1.
C8_Witness ==
    /\ cfg.mode = "unit"
    /\ "unit" \in DOMAIN runs
    /\ src = AdderText
    /\ ir = <<AdderLoop>>
    /\ cfg.tape0[cfg.pos0 + 1] = -1
    /\ cfg.tape0[cfg.pos0 + 2] = 2
    /\ runs["unit"].data[cfg.pos0 + 2] = 1

\* C10: Prev(n) from pointer p ends with the pointer at max(p - n, 0) and
\* does not fail, in the growable interpreter and in the fixed-tape ones.
C10_PrevSaturates ==
    (/\ cfg.mode = "unit"
     /\ "unit" \in DOMAIN runs
     /\ Len(ir) = 1
     /\ ir[1].op = "Prev") =>
        LET r == runs["unit"]
            p == cfg.pos0
            n == ir[1].n
        IN  /\ r.st = "done"
            /\ r.idx = IF p >= n THEN p - n ELSE 0

----------------------------------------------------------------------------
(* Claims about input and output (Spec).                                    *)

\* C11: an In that meets the end of the input stops the interpreter: the
\* run ends with an I/O error returned to its caller, no later statement
\* runs, and the tape, the pointer and the output are as they were before
\* the In.
C11_InErrorStops ==
    [][/\ (/\ m.eng \in {"ctx", "sc"}
           /\ At(m.eng, "In")
           /\ m.inp = <<>>)
          => /\ m'.st = "err"
             /\ m'.data = m.data
             /\ m'.idx = m.idx
             /\ m'.out = m.out
       /\ (m.st = "err")
          => /\ m'.st = "idle"
             /\ runs'[m.run] = m]_vars

\* C12: every executed Out appends exactly one byte to the output, the low
\* 8 bits of the current cell as an unsigned value, also for 128..255.
C12_OutOneByte ==
    [][/\ (At("ctx", "Out") /\ ctx_in_bounds(m))
          => m'.out = Append(m.out, as_u8(ctx_cur(m)))
       /\ (At("sc", "Out") /\ sc_in_bounds(m))
          => m'.out = Append(m.out, sc_cur(m) % 256)]_vars

----------------------------------------------------------------------------
(* Claims about the parser (Spec).                                          *)

\* the nesting depth after the text s read from depth d; negative once a
\* `]` has closed nothing
RECURSIVE Depth(_, _)
Depth(s, d) ==
    IF d < 0 THEN -1
    ELSE IF s = <<>> THEN d
    ELSE Depth(Tail(s), IF Head(s) = "[" THEN d + 1
                        ELSE IF Head(s) = "]" THEN d - 1
                        ELSE d)

Matched(s) == Depth(s, 0) = 0

\* the text a sequence of nodes stands for when every `[ ]` pair is one Loop
\* and every other character one node, counted nodes with count 1
RECURSIVE Unparse(_)
UnparseNode(s) ==
    IF s.op = "Loop" THEN <<"[">> \o Unparse(s.body) \o <<"]">>
    ELSE IF s.op = "Out" THEN <<".">>
    ELSE IF s.op = "In" THEN <<",">>
    ELSE IF s.op \in {"Inc", "Dec", "Next", "Prev"} /\ s.n = 1
    THEN <<CASE s.op = "Inc" -> "+" [] s.op = "Dec" -> "-"
             [] s.op = "Next" -> ">" [] s.op = "Prev" -> "<">>
    ELSE <<"?">>

Unparse(l) == IF l = <<>> THEN <<>> ELSE UnparseNode(Head(l)) \o Unparse(Tail(l))

\* C13: program succeeds on a text over the eight characters exactly when
\* its brackets are matched; on success every `[ ]` pair is one Loop and
\* every + - < > a node with count 1 (and every . , an Out or In), in order.
C13_ParseIffMatched ==
    (src # <<>> /\ pass = "none" /\ stage \in {"parsed", "parse_error"}) =>
        /\ (stage = "parsed") <=> Matched(bf_chars(src))
        /\ (stage = "parsed") => Unparse(ir) = bf_chars(src)

\* C13 witness: the text with a loop holding two loops has been parsed into
\* one Loop node around two Loop nodes.
C13_Witness ==
    /\ stage = "parsed"
    /\ pass = "none"
    /\ src = <<"[", "[", ">", "<", "-", "]", ">", "[", "-", ">", "+", "<", "]", ">", ".", "<", "]">>
    /\ Len(ir) = 1
    /\ ir[1].op = "Loop"
    /\ Len(ir[1].body) = 6
    /\ ir[1].body[1] = SLoop(<<SNext(1), SPrev(1), SDec(1)>>)

\* the Loop nodes of a tree that have no statement in their body
RECURSIVE EmptyLoops(_)
EmptyLoops(l) ==
    IF l = <<>> THEN 0
    ELSE (IF Head(l).op # "Loop" THEN 0
          ELSE IF Head(l).body = <<>> THEN 1
          ELSE EmptyLoops(Head(l).body))
         + EmptyLoops(Tail(l))

\* the places of a text where `[` is followed at once by `]`
EmptyPairs(s) ==
    Cardinality({i \in 1..(Len(s) - 1) : s[i] = "[" /\ s[i + 1] = "]"})

\* C14: in every IR tree that program returns, every Loop node has a
\* non-empty body.
C14_LoopBodiesNonEmpty ==
    (src # <<>> /\ pass = "none" /\ stage = "parsed") => EmptyLoops(ir) = 0

\* C14 as the code has it: a matched text with `[]` in it parses, and the
\* Loop nodes with an empty body are exactly its `[]` pairs; every other
\* Loop has a non-empty body.
C14_EmptyLoopsAreEmptyPairs ==
    (/\ src # <<>>
     /\ pass = "none"
     /\ stage \in {"parsed", "parse_error"}
     /\ Matched(bf_chars(src))) =>
        /\ stage = "parsed"
        /\ EmptyLoops(ir) = EmptyPairs(bf_chars(src))

\* C14 witness: the text `[]` has been parsed to a Loop with nothing in it.
C14_Witness ==
    /\ stage = "parsed"
    /\ pass = "none"
    /\ src = <<"[", "]">>
    /\ ir = <<SLoop(<<>>)>>

----------------------------------------------------------------------------
(* Claims about the lowered function (Spec).                                *)

\* C15: when the lowered function starts on the first IR statement, pos is 0
\* and every one of the NUM_CELLS cells of its working tape reads as zero.
C15_TapeZeroedAtStart ==
    (/\ m.eng = "jit"
     /\ m.st = "run"
     /\ Len(m.stk) = 1
     /\ Top(m).pc = 1) =>
        /\ m.idx = 0
        /\ \A i \in 0..(JIT_NUM_CELLS - 1) : jit_loads(m, i) = {0}

\* C17: the copy of the working tape to the out-parameter at return writes
\* no more cells than the buffer the caller passed holds.
C17_CopyFitsBuffer ==
    (m.eng = "jit" /\ m.st \in Halted /\ m.stk = <<>>) =>
        m.copied <= JIT_BUF_LEN

----------------------------------------------------------------------------
(* Claims about the termination of constant_fold (SpecOpt).                 *)

\* C16: constant_fold returns on every finite IR sequence, also one that
\* holds AddOffset or SearchZero nodes: no call is left spinning, and each
\* pass of the scan loop at a node moves the cursor forward by at least one.
C16_FoldTerminates ==
    /\ stage # "hung"
    /\ \A i \in 1..Len(ir) :
           ir[i].op # "Loop" => fold_step(ir, i).idx > i

====
